---- MODULE Spec2Model ----
(***************************************************************************)
(* LegisWatch (app.py): the legislative data aggregator (BillTracker), the *)
(* summary enrichment (get_llm_summary) and the /api/search handler.       *)
(*                                                                         *)
(* Python strings are TLA+ strings; TLC evaluates Len, \o, Head, Tail and  *)
(* SubSeq on them.  A Python value that may be None or an absent dict key  *)
(* is a record [t, s]: t is "str", "none" or "missing", s the string.      *)
(***************************************************************************)
EXTENDS Integers, Sequences, FiniteSets, TLC

VARIABLES
  normIn,          \* _normalize_state called on its own: the argument
  normOut,         \* what that call returned (Missing before the call)
  mockCalls,       \* _get_mock_bills_by_state called on its own: [state, bills] per call
  fmtIn,           \* a formatter called on its own: [kind, bill], the upstream record
  fmtOut,          \* what that call returned
  llmIn,           \* get_llm_summary called on its own: [text, topic, key, o]
  llmOut,          \* what that call did: [raised, val]
  expIn,           \* the bills field of the body posted to /api/export
  expOut,          \* the response of api_export: [status, error, csv], csv the lines written
  hfKey,           \* whether HUGGINGFACE_API_KEY is set (read once, at import)
  pyhash,          \* the process's str hash, as far as it has been evaluated
  pc,              \* where the request under way stands
  req,             \* the request: entry, type, query, include_ai, limit
  calls,           \* the upstream calls made so far, in order
  page,            \* search_bills_by_keyword: the bills of the listing page (its local bills)
  filtered_bills,  \* search_bills_by_keyword: the listed bills that passed the filter
  detailed_bills,  \* search_bills_by_keyword: the bills formatted so far
  members,         \* search_bills_by_state: the matching members
  all_bills,       \* search_bills_by_state: the sponsored bills gathered so far
  idx,             \* the loop position (filtered bill, member, or bill to enrich)
  bills,           \* what the search returned (api_search's bills)
  response         \* the HTTP response of api_search

unitVars == <<normIn, normOut, mockCalls, fmtIn, fmtOut, llmIn, llmOut, expIn, expOut>>

locals == <<filtered_bills, detailed_bills, members, all_bills>>

reqVars == <<hfKey, pyhash, pc, req, calls, page, locals, idx, bills, response>>

vars == <<unitVars, reqVars>>

----------------------------------------------------------------------------
(* Python values *)

Str(s) == [t |-> "str", s |-> s]

None == [t |-> "none", s |-> ""]

Missing == [t |-> "missing", s |-> ""]

\* Python truthiness of a str-or-None value.
Truthy(v) == v.t = "str" /\ v.s # ""

----------------------------------------------------------------------------
(* str methods *)

LowerAlpha == "abcdefghijklmnopqrstuvwxyz"

UpperAlpha == "ABCDEFGHIJKLMNOPQRSTUVWXYZ"

CharAt(s, i) == SubSeq(s, i, i)

IsLowerChar(c) == \E i \in 1..26 : CharAt(LowerAlpha, i) = c

IsUpperChar(c) == \E i \in 1..26 : CharAt(UpperAlpha, i) = c

LowerChar(c) ==
  IF IsUpperChar(c)
    THEN CharAt(LowerAlpha, CHOOSE i \in 1..26 : CharAt(UpperAlpha, i) = c)
    ELSE c

UpperChar(c) ==
  IF IsLowerChar(c)
    THEN CharAt(UpperAlpha, CHOOSE i \in 1..26 : CharAt(LowerAlpha, i) = c)
    ELSE c

RECURSIVE Lower(_)
Lower(s) == IF s = "" THEN "" ELSE LowerChar(Head(s)) \o Lower(Tail(s))

RECURSIVE Upper(_)
Upper(s) == IF s = "" THEN "" ELSE UpperChar(Head(s)) \o Upper(Tail(s))

RECURSIVE LStrip(_)
LStrip(s) == IF s # "" /\ Head(s) = " " THEN LStrip(Tail(s)) ELSE s

RECURSIVE RStrip(_)
RStrip(s) ==
  IF s # "" /\ CharAt(s, Len(s)) = " " THEN RStrip(SubSeq(s, 1, Len(s) - 1)) ELSE s

Strip(s) == RStrip(LStrip(s))

\* str.title(): the first cased letter of every run of letters is upper-cased,
\* the others are lower-cased.
RECURSIVE TitleFrom(_, _)
TitleFrom(s, prevCased) ==
  IF s = "" THEN ""
  ELSE LET c == Head(s)
           cased == IsLowerChar(c) \/ IsUpperChar(c)
       IN (IF prevCased THEN LowerChar(c) ELSE UpperChar(c)) \o TitleFrom(Tail(s), cased)

Title(s) == TitleFrom(s, FALSE)

\* needle in hay
Contains(hay, needle) ==
  \E i \in 1..(Len(hay) - Len(needle) + 1) :
    SubSeq(hay, i, i + Len(needle) - 1) = needle

----------------------------------------------------------------------------
(* BillTracker._normalize_state *)

state_mapping ==
  <<
    <<"alabama", "AL">>, <<"alaska", "AK">>, <<"arizona", "AZ">>, <<"arkansas", "AR">>,
    <<"california", "CA">>, <<"colorado", "CO">>, <<"connecticut", "CT">>, <<"delaware", "DE">>,
    <<"florida", "FL">>, <<"georgia", "GA">>, <<"hawaii", "HI">>, <<"idaho", "ID">>,
    <<"illinois", "IL">>, <<"indiana", "IN">>, <<"iowa", "IA">>, <<"kansas", "KS">>,
    <<"kentucky", "KY">>, <<"louisiana", "LA">>, <<"maine", "ME">>, <<"maryland", "MD">>,
    <<"massachusetts", "MA">>, <<"michigan", "MI">>, <<"minnesota", "MN">>, <<"mississippi", "MS">>,
    <<"missouri", "MO">>, <<"montana", "MT">>, <<"nebraska", "NE">>, <<"nevada", "NV">>,
    <<"new hampshire", "NH">>, <<"new jersey", "NJ">>, <<"new mexico", "NM">>, <<"new york", "NY">>,
    <<"north carolina", "NC">>, <<"north dakota", "ND">>, <<"ohio", "OH">>, <<"oklahoma", "OK">>,
    <<"oregon", "OR">>, <<"pennsylvania", "PA">>, <<"rhode island", "RI">>, <<"south carolina", "SC">>,
    <<"south dakota", "SD">>, <<"tennessee", "TN">>, <<"texas", "TX">>, <<"utah", "UT">>,
    <<"vermont", "VT">>, <<"virginia", "VA">>, <<"washington", "WA">>, <<"west virginia", "WV">>,
    <<"wisconsin", "WI">>, <<"wyoming", "WY">>
  >>

StateNames == {state_mapping[i][1] : i \in 1..Len(state_mapping)}

StateAbbrs == {state_mapping[i][2] : i \in 1..Len(state_mapping)}

\* state_mapping[name]
AbbrOf(name) == state_mapping[CHOOSE i \in 1..Len(state_mapping) : state_mapping[i][1] = name][2]

\* The statement after the abbreviation test is part of the comment on line 359,
\* so the function falls off its end and returns None.
_normalize_state(state_input) ==
  LET state_lower == Strip(Lower(state_input))
  IN IF Len(state_input) = 2 /\ Upper(state_input) \in StateAbbrs
       THEN Str(Upper(state_input))
       ELSE None

----------------------------------------------------------------------------
(* Upstream JSON records.  A bill record of the Congress.gov API is a dict:  *)
(* every key the code reads is a field here, Missing when the key is absent. *)
(* "obj" tags a JSON value that is neither a string nor null (a dict).       *)

Obj == [t |-> "obj", s |-> ""]

\* dict.get(key, default) for a str-or-None valued key
Get(v, default) == IF v.t = "missing" THEN default ELSE v

\* A list-valued key: t is "list", "none" or "missing", l the elements.
List(l) == [t |-> "list", l |-> l]

NoneList == [t |-> "none", l |-> <<>>]

MissingList == [t |-> "missing", l |-> <<>>]

BlankBill ==
  [type |-> Missing, number |-> Missing, title |-> Missing,
   summary |-> Missing, latestSummary |-> Missing, summary_short |-> Missing,
   description |-> Missing, introducedDate |-> Missing, updateDate |-> Missing,
   sponsors |-> MissingList, summaries |-> MissingList]

BlankSponsor ==
  [firstName |-> Missing, lastName |-> Missing, party |-> Missing, state |-> Missing]

\* f"{v}" of a str-or-None value
Fmt(v) == IF v.t = "none" THEN "None" ELSE v.s

----------------------------------------------------------------------------
(* The canonical Bill *)

\* ai_summary is Missing until the enrichment attaches it.
NoBill ==
  [id |-> Missing, title |-> Missing, summary |-> Missing, introduced_date |-> Missing,
   sponsor |-> Missing, congress_url |-> Missing, bill_type |-> Missing,
   number |-> Missing, updateDate |-> Missing, ai_summary |-> Missing]

\* What a formatter returns: a Bill, or Python's None (ok = FALSE).
Some(b) == [ok |-> TRUE, bill |-> b]

Nothing == [ok |-> FALSE, bill |-> NoBill]

current_congress == 118

type_mapping ==
  << <<"HR", "house-bill">>, <<"S", "senate-bill">>,
     <<"HJRES", "house-joint-resolution">>, <<"SJRES", "senate-joint-resolution">>,
     <<"HCONRES", "house-concurrent-resolution">>,
     <<"SCONRES", "senate-concurrent-resolution">>,
     <<"HRES", "house-resolution">>, <<"SRES", "senate-resolution">> >>

\* type_mapping.get(t, 'bill')
UrlType(t) ==
  IF \E i \in 1..Len(type_mapping) : type_mapping[i][1] = t
    THEN type_mapping[CHOOSE i \in 1..Len(type_mapping) : type_mapping[i][1] = t][2]
    ELSE "bill"

\* bill_type is a str, bill_number a str or None
_generate_congress_url(bill_type, bill_number) ==
  IF bill_type = "" \/ ~Truthy(bill_number)
    THEN "https://www.congress.gov"
    ELSE "https://www.congress.gov/bill/" \o ToString(current_congress) \o "th-congress/"
           \o UrlType(Upper(bill_type)) \o "/" \o bill_number.s

summary_fields == <<"summary", "latestSummary", "summary_short", "description">>

_get_bill_summary(bill) ==
  LET val(i) == bill[summary_fields[i]]
      good(i) == val(i).t = "str" /\ Len(Strip(val(i).s)) > 0
  IN IF \E i \in 1..Len(summary_fields) : good(i)
       THEN Strip(val(CHOOSE i \in 1..Len(summary_fields) :
                        good(i) /\ \A j \in 1..(i - 1) : ~good(j)).s)
       ELSE "No summary available"

_get_sponsor_info_from_bill(bill) ==
  IF bill.sponsors.t = "list" /\ Len(bill.sponsors.l) > 0
    THEN LET sponsor == bill.sponsors.l[1]
             first_name == Get(sponsor.firstName, Str(""))
             last_name == Get(sponsor.lastName, Str(""))
             party == Get(sponsor.party, Str(""))
             state == Get(sponsor.state, Str(""))
             tail == " (" \o Fmt(party) \o "-" \o Fmt(state) \o ")"
         IN IF Truthy(first_name) /\ Truthy(last_name)
              THEN first_name.s \o " " \o last_name.s \o tail
              ELSE IF Truthy(last_name) THEN last_name.s \o tail
              ELSE "Unknown"
    ELSE "Unknown"

----------------------------------------------------------------------------
(* BillTracker._format_date *)

Digits == "0123456789"

IsDigit(c) == \E i \in 1..10 : CharAt(Digits, i) = c

DigitVal(c) == (CHOOSE i \in 1..10 : CharAt(Digits, i) = c) - 1

AllDigits(s) == \A i \in 1..Len(s) : IsDigit(CharAt(s, i))

RECURSIVE IntOf(_)
IntOf(s) == IF s = "" THEN 0 ELSE 10 * IntOf(SubSeq(s, 1, Len(s) - 1)) + DigitVal(CharAt(s, Len(s)))

DaysIn(y, m) ==
  IF m = 2 THEN (IF (y % 4 = 0 /\ y % 100 # 0) \/ y % 400 = 0 THEN 29 ELSE 28)
  ELSE IF m \in {4, 6, 9, 11} THEN 30 ELSE 31

ValidYMD(y, m, d) ==
  /\ y # "" /\ m # "" /\ d # ""
  /\ AllDigits(y) /\ AllDigits(m) /\ AllDigits(d)
  /\ IntOf(y) >= 1
  /\ IntOf(m) \in 1..12
  /\ IntOf(d) \in 1..DaysIn(IntOf(y), IntOf(m))

Pad2(s) == IF Len(s) = 1 THEN "0" \o s ELSE s

Dashes(s) == {i \in 1..Len(s) : CharAt(s, i) = "-"}

\* datetime.strptime(s, '%Y-%m-%d').strftime('%Y-%m-%d'); ok = FALSE when it raises
Strptime(s) ==
  IF Cardinality(Dashes(s)) # 2 THEN [ok |-> FALSE, s |-> s]
  ELSE LET i == CHOOSE i \in Dashes(s) : \A j \in Dashes(s) : i <= j
           k == CHOOSE k \in Dashes(s) : \A j \in Dashes(s) : j <= k
           y == SubSeq(s, 1, i - 1)
           m == SubSeq(s, i + 1, k - 1)
           d == SubSeq(s, k + 1, Len(s))
       IN IF Len(y) = 4 /\ Len(m) \in 1..2 /\ Len(d) \in 1..2 /\ ValidYMD(y, m, d)
            THEN [ok |-> TRUE, s |-> y \o "-" \o Pad2(m) \o "-" \o Pad2(d)]
            ELSE [ok |-> FALSE, s |-> s]

\* HH:MM:SS, then nothing, "Z" (replaced by +00:00) or "+HH:MM"
ValidTime(s) ==
  /\ Len(s) >= 8
  /\ AllDigits(SubSeq(s, 1, 2)) /\ CharAt(s, 3) = ":"
  /\ AllDigits(SubSeq(s, 4, 5)) /\ CharAt(s, 6) = ":"
  /\ AllDigits(SubSeq(s, 7, 8))
  /\ IntOf(SubSeq(s, 1, 2)) < 24 /\ IntOf(SubSeq(s, 4, 5)) < 60 /\ IntOf(SubSeq(s, 7, 8)) < 60
  /\ SubSeq(s, 9, Len(s)) \in {"", "Z", "+00:00"}

\* datetime.fromisoformat(s.replace('Z', '+00:00')).strftime('%Y-%m-%d')
FromIso(s) ==
  IF /\ Len(s) >= 11
     /\ CharAt(s, 5) = "-" /\ CharAt(s, 8) = "-" /\ CharAt(s, 11) = "T"
     /\ ValidYMD(SubSeq(s, 1, 4), SubSeq(s, 6, 7), SubSeq(s, 9, 10))
     /\ ValidTime(SubSeq(s, 12, Len(s)))
    THEN [ok |-> TRUE, s |-> SubSeq(s, 1, 10)]
    ELSE [ok |-> FALSE, s |-> s]

\* date_string is a str or None; the result is a str
_format_date(date_string) ==
  IF ~Truthy(date_string) THEN "Unknown"
  ELSE LET parsed == IF Contains(date_string.s, "T")
                       THEN FromIso(date_string.s)
                       ELSE Strptime(date_string.s)
       IN IF parsed.ok THEN parsed.s ELSE date_string.s

----------------------------------------------------------------------------
(* BillTracker._format_basic_bill, _format_detailed_bill *)

\* bill.get('type', '').upper() raises on a type that is no str
TypeRaises(bill) == bill.type.t \in {"none", "obj"}

_format_basic_bill(bill) ==
  IF TypeRaises(bill) THEN Nothing
  ELSE LET bill_type == Upper(Get(bill.type, Str("")).s)
           bill_number == Get(bill.number, Str("N/A"))
       IN Some([id |-> Str(bill_type \o Fmt(bill_number)),
                title |-> Get(bill.title, Str("No title available")),
                summary |-> Str(_get_bill_summary(bill)),
                introduced_date |->
                  Str(_format_date(Get(bill.introducedDate, Get(bill.updateDate, Str(""))))),
                sponsor |-> Str(_get_sponsor_info_from_bill(bill)),
                congress_url |-> Str(_generate_congress_url(bill_type, bill_number)),
                bill_type |-> Str(bill_type),
                number |-> bill_number,
                updateDate |-> Get(bill.updateDate, Str("")),
                ai_summary |-> Missing])

\* bill.get('summaries', {}).get('summaries', []) raises on a null 'summaries'
_format_detailed_bill(bill) ==
  IF TypeRaises(bill) THEN Nothing
  ELSE LET bill_type == Upper(Get(bill.type, Str("")).s)
           bill_number == Get(bill.number, Str("N/A"))
           first == _get_bill_summary(bill)
           nested == first = "No summary available"
       IN IF nested /\ bill.summaries.t = "none" THEN Nothing
          ELSE LET summary ==
                     IF nested /\ bill.summaries.t = "list" /\ Len(bill.summaries.l) > 0
                       THEN Get(bill.summaries.l[1], Str("No summary available"))
                       ELSE Str(first)
               IN Some([id |-> Str(bill_type \o Fmt(bill_number)),
                        title |-> Get(bill.title, Str("No title available")),
                        summary |-> summary,
                        introduced_date |->
                          Str(_format_date(Get(bill.introducedDate, Str("")))),
                        sponsor |-> Str(_get_sponsor_info_from_bill(bill)),
                        congress_url |-> Str(_generate_congress_url(bill_type, bill_number)),
                        bill_type |-> Str(bill_type),
                        number |-> bill_number,
                        updateDate |-> Get(bill.updateDate, Str("")),
                        ai_summary |-> Missing])

----------------------------------------------------------------------------
(* BillTracker._get_mock_bills *)

mock_bills_db ==
  <<
    <<"healthcare", <<
      [type |-> "HR", number |-> "3421",
       title |-> "Healthcare Accessibility and Affordability Act of 2024",
       summary |->
         "A bill to improve access to healthcare services and reduce prescriptio" \o
         "n drug costs for Americans. This comprehensive legislation addresses k" \o
         "ey issues in healthcare delivery and aims to expand coverage while mai" \o
         "ntaining quality of care.",
       sponsor |-> "Rep. Sarah Johnson (D-CA)",
       introducedDate |-> "2024-12-15"],
      [type |-> "S", number |-> "1247",
       title |-> "Medicare Enhancement and Protection Act",
       summary |->
         "To strengthen Medicare benefits and protect seniors from rising health" \o
         "care costs. The bill includes provisions for dental and vision coverag" \o
         "e under Medicare Part B.",
       sponsor |-> "Sen. Michael Thompson (R-TX)",
       introducedDate |-> "2024-12-10"] >> >>,
    <<"climate", <<
      [type |-> "HR", number |-> "2156",
       title |-> "Clean Energy Infrastructure Investment Act",
       summary |->
         "Legislation to accelerate the deployment of renewable energy infrastru" \o
         "cture and create green jobs across America. Includes tax incentives fo" \o
         "r solar and wind energy projects.",
       sponsor |-> "Rep. Elena Rodriguez (D-NV)",
       introducedDate |-> "2024-12-18"],
      [type |-> "S", number |-> "892",
       title |-> "Climate Resilience and Adaptation Act of 2024",
       summary |->
         "A comprehensive approach to climate adaptation and resilience building" \o
         " in vulnerable communities. Provides federal funding for climate-resil" \o
         "ient infrastructure.",
       sponsor |-> "Sen. James Wilson (I-VT)",
       introducedDate |-> "2024-12-12"] >> >>,
    <<"education", <<
      [type |-> "HR", number |-> "4567",
       title |-> "Student Debt Relief and College Affordability Act",
       summary |->
         "To provide student loan forgiveness and make college more affordable f" \o
         "or middle-class families. Includes provisions for community college fu" \o
         "nding and trade school support.",
       sponsor |-> "Rep. David Chen (D-WA)",
       introducedDate |-> "2024-12-20"] >> >>,
    <<"infrastructure", <<
      [type |-> "HR", number |-> "1789",
       title |-> "National Infrastructure Modernization Act",
       summary |->
         "A comprehensive infrastructure bill addressing roads, bridges, broadba" \o
         "nd, and water systems. Aims to create jobs while modernizing America's" \o
         " infrastructure.",
       sponsor |-> "Rep. Maria Gonzalez (R-FL)",
       introducedDate |-> "2024-12-14"] >> >>,
    <<"technology", <<
      [type |-> "HR", number |-> "2890",
       title |-> "Digital Privacy and Security Act of 2024",
       summary |->
         "Comprehensive legislation to protect consumer data privacy and enhance" \o
         " cybersecurity standards for businesses. Includes requirements for dat" \o
         "a breach notifications and user consent.",
       sponsor |-> "Rep. Jennifer Kim (D-CA)",
       introducedDate |-> "2024-12-13"] >> >>
  >>

default_bills(keyword) ==
  << [type |-> "HR", number |-> "5001",
      title |-> "American Innovation and Competitiveness Act Related to " \o Title(keyword),
      summary |->
        "Legislation addressing " \o keyword \o
        " policy and its impact on American competitiveness. This bill aims to " \o
        "strengthen our nation's position in " \o keyword \o
        "-related sectors through targeted investments and regulatory reforms.",
      sponsor |-> "Rep. Alex Martinez (D-NY)",
      introducedDate |-> "2024-12-16"],
     [type |-> "S", number |-> "2301",
      title |-> "Bipartisan " \o Title(keyword) \o " Reform Act of 2024",
      summary |->
        "A bipartisan approach to " \o keyword \o
        " reform that brings together stakeholders from across the political " \o
        "spectrum. The bill includes provisions for transparency, accountability, " \o
        "and effectiveness in " \o keyword \o " policy.",
      sponsor |-> "Sen. Robert Davis (R-GA)",
      introducedDate |-> "2024-12-11"] >>

\* The formatting loop shared by both mock generators (lines 466-478, 508-521).
FormatMock(bill) ==
  [id |-> Str(bill.type \o bill.number),
   title |-> Str(bill.title),
   summary |-> Str(bill.summary),
   introduced_date |-> Str(bill.introducedDate),
   sponsor |-> Str(bill.sponsor),
   congress_url |-> Str(_generate_congress_url(bill.type, Str(bill.number))),
   bill_type |-> Str(bill.type),
   number |-> Str(bill.number),
   updateDate |-> Str(bill.introducedDate),
   ai_summary |-> Missing]

FormatMocks(raw) == [i \in 1..Len(raw) |-> FormatMock(raw[i])]

\* relevant_bills after the loop over the first n topics of mock_bills_db
RECURSIVE RelevantBills(_, _)
RelevantBills(keyword_lower, n) ==
  IF n = 0 THEN <<>>
  ELSE LET topic == mock_bills_db[n][1]
           rest == RelevantBills(keyword_lower, n - 1)
       IN IF Contains(keyword_lower, topic) \/ Contains(topic, keyword_lower)
            THEN rest \o mock_bills_db[n][2]
            ELSE rest

_get_mock_bills(keyword) ==
  LET relevant_bills == RelevantBills(Lower(keyword), Len(mock_bills_db))
  IN FormatMocks(IF relevant_bills = <<>> THEN default_bills(keyword) ELSE relevant_bills)

----------------------------------------------------------------------------
(* BillTracker._get_mock_bills_by_state *)

\* hash() of a str is fixed for the life of the process and differs from one
\* process to the next (the interpreter seeds it at start-up): pyhash is the part
\* of this process's hash function that has been evaluated so far.

Abs(x) == IF x < 0 THEN -x ELSE x

\* state_abbr of _get_mock_bills_by_state
MockAbbr(state) ==
  LET state_abbr == _normalize_state(state)
  IN IF Truthy(state_abbr) THEN state_abbr.s ELSE Upper(state)

\* The strings _get_mock_bills_by_state(state) hashes
HashKeys(state) == {MockAbbr(state), MockAbbr(state) \o "senate"}

\* h: the process's hash function, defined on HashKeys(state)
_get_mock_bills_by_state(state, h) ==
  LET state_abbr == MockAbbr(state)
      state_bills ==
        << [type |-> "HR",
            number |-> ToString((Abs(h[state_abbr]) % 9000) + 1000),
            title |-> state \o " Economic Development and Infrastructure Act",
            summary |->
              "A bill to promote economic development and improve infrastructure in " \o
              "the state of " \o state \o ". Includes funding for transportation, " \o
              "broadband expansion, and job training programs specific to " \o state \o
              "'s needs.",
            sponsor |-> "Rep. [Representative Name] (D-" \o state_abbr \o ")",
            introducedDate |-> "2024-12-19"],
           [type |-> "S",
            number |-> ToString((Abs(h[state_abbr \o "senate"]) % 2000) + 100),
            title |-> state \o " Small Business Support Act of 2024",
            summary |->
              "Legislation to support small businesses and entrepreneurs in " \o state \o
              ". Provides tax incentives, grants, and loan guarantees for small " \o
              "business development in rural and urban areas of " \o state \o ".",
            sponsor |-> "Sen. [Senator Name] (R-" \o state_abbr \o ")",
            introducedDate |-> "2024-12-17"] >>
  IN FormatMocks(state_bills)

----------------------------------------------------------------------------
(* Upstream responses.  What requests.get / requests.post can do: raise     *)
(* (timeout, connection error) or return a response with a status and a     *)
(* body.  shape is what response.json() gives: "notjson" (it raises),       *)
(* "notdict" (a JSON value without .get), "nokey" (a dict without the key    *)
(* the code reads), "null" (the key holds null), "items" (the key holds the  *)
(* list items, or for a bill detail the one record items[1]).                *)

Timeout == [kind |-> "timeout", status |-> 0, shape |-> "", items |-> <<>>]

ConnErr == [kind |-> "connerr", status |-> 0, shape |-> "", items |-> <<>>]

Http(status, shape, items) ==
  [kind |-> "http", status |-> status, shape |-> shape, items |-> items]

FailStatuses == {404, 500}

Outcomes(pages) ==
  {Timeout, ConnErr}
    \cup {Http(st, "notjson", <<>>) : st \in FailStatuses}
    \cup {Http(200, sh, <<>>) : sh \in {"notjson", "notdict", "nokey", "null"}}
    \cup {Http(200, "items", p) : p \in pages}

\* The call did not give a 200 response whose body parses to a dict.
Unusable(o) == o.kind # "http" \/ o.status # 200 \/ o.shape \in {"notjson", "notdict"}

Min(a, b) == IF a < b THEN a ELSE b

Take(seq, n) == SubSeq(seq, 1, Min(n, Len(seq)))

----------------------------------------------------------------------------
(* BillTracker._filter_bills_by_keyword, _get_bill_details *)

\* bill.get('title', '').lower() raises on a title that is no str
FilterRaises(listed) == \E i \in 1..Len(listed) : listed[i].title.t \in {"none", "obj"}

\* The title test without the lower-casing of the title
KeywordInTitleAsIs(bill, keyword) == Contains(Get(bill.title, Str("")).s, Lower(keyword))

KeywordInTitle(bill, keyword) == Contains(Lower(Get(bill.title, Str("")).s), Lower(keyword))

RECURSIVE _filter_bills_by_keyword(_, _)
_filter_bills_by_keyword(listed, keyword) ==
  IF listed = <<>> THEN <<>>
  ELSE LET rest == _filter_bills_by_keyword(Tail(listed), keyword)
       IN IF KeywordInTitle(Head(listed), keyword) THEN <<Head(listed)>> \o rest ELSE rest

\* The detail fetch is made for a bill with a number and a type.
DetailCalled(bill) == ~TypeRaises(bill) /\ Truthy(bill.number) /\ Truthy(bill.type)

DetailUrl(bill) ==
  "/bill/" \o ToString(current_congress) \o "/" \o Lower(bill.type.s) \o "/" \o bill.number.s

\* o: the upstream's answer to the detail fetch, read only when DetailCalled(bill)
_get_bill_details(bill, o) ==
  IF ~DetailCalled(bill) THEN _format_basic_bill(bill)
  ELSE IF o.kind # "http" THEN _format_basic_bill(bill)
  ELSE IF o.status # 200 THEN _format_basic_bill(bill)
  ELSE IF o.shape \in {"notjson", "notdict"} THEN _format_basic_bill(bill)
  ELSE IF o.shape = "nokey" THEN _format_detailed_bill(BlankBill)
  ELSE IF o.shape = "null" THEN Nothing
  ELSE _format_detailed_bill(o.items[1])

----------------------------------------------------------------------------
(* BillTracker._get_members_by_state, _get_member_sponsored_bills *)

BlankMember == [state |-> Missing, bioguideId |-> Missing]

\* m.get('state', '').upper() raises on a state that is no str
MemberRaises(ms) == \E i \in 1..Len(ms) : ms[i].state.t \in {"none", "obj"}

RECURSIVE MembersOf(_, _)
MembersOf(ms, state_abbr) ==
  IF ms = <<>> THEN <<>>
  ELSE LET rest == MembersOf(Tail(ms), state_abbr)
       IN IF Upper(Get(Head(ms).state, Str("")).s) = Upper(state_abbr)
            THEN <<Head(ms)>> \o rest ELSE rest

\* One chamber's member list: [raised, members], the matching members of a 200
\* response, none for another status.
ChamberMembers(o, state_abbr) ==
  IF o.kind # "http" THEN [raised |-> TRUE, members |-> <<>>]
  ELSE IF o.status # 200 THEN [raised |-> FALSE, members |-> <<>>]
  ELSE IF o.shape \in {"notjson", "notdict", "null"} THEN [raised |-> TRUE, members |-> <<>>]
  ELSE IF o.shape = "nokey" THEN [raised |-> FALSE, members |-> <<>>]
  ELSE IF MemberRaises(o.items) THEN [raised |-> TRUE, members |-> <<>>]
  ELSE [raised |-> FALSE, members |-> MembersOf(o.items, state_abbr)]

RECURSIVE FormatAll(_)
FormatAll(raw) ==
  IF raw = <<>> THEN <<>>
  ELSE LET f == _format_basic_bill(Head(raw))
       IN (IF f.ok THEN <<f.bill>> ELSE <<>>) \o FormatAll(Tail(raw))

SponsoredCalled(bioguide_id) == Truthy(bioguide_id)

\* bioguide_id: member.get('bioguideId', ''); o is read only when the call is made
_get_member_sponsored_bills(bioguide_id, o) ==
  IF ~SponsoredCalled(bioguide_id) THEN <<>>
  ELSE IF Unusable(o) THEN <<>>
  ELSE IF o.shape \in {"nokey", "null"} THEN <<>>
  ELSE FormatAll(o.items)

----------------------------------------------------------------------------
(* all_bills.sort(key=lambda x: x.get('updateDate', ''), reverse=True) *)

\* The characters of the timestamps, in code-point order.
CharOrder ==
  " '()+,-./0123456789:ABCDEFGHIJKLMNOPQRSTUVWXYZ_abcdefghijklmnopqrstuvwxyz"

Ord(c) == CHOOSE i \in 1..Len(CharOrder) : CharAt(CharOrder, i) = c

RECURSIVE StrLess(_, _)
StrLess(a, b) ==
  IF b = "" THEN FALSE
  ELSE IF a = "" THEN TRUE
  ELSE IF Head(a) = Head(b) THEN StrLess(Tail(a), Tail(b))
  ELSE Ord(Head(a)) < Ord(Head(b))

\* Comparing None with a str, or with None, raises TypeError; a list of fewer
\* than two elements is sorted without a comparison.
SortRaises(bs) == Len(bs) >= 2 /\ \E i \in 1..Len(bs) : bs[i].updateDate.t # "str"

\* Stable insertion from the right: b goes before the first element with a smaller key.
RECURSIVE InsertDesc(_, _)
InsertDesc(b, sorted) ==
  IF sorted = <<>> THEN <<b>>
  ELSE IF StrLess(Head(sorted).updateDate.s, b.updateDate.s) THEN <<b>> \o sorted
  ELSE <<Head(sorted)>> \o InsertDesc(b, Tail(sorted))

RECURSIVE SortDesc(_)
SortDesc(bs) ==
  IF Len(bs) <= 1 THEN bs
  ELSE InsertDesc(bs[Len(bs)], SortDesc(SubSeq(bs, 1, Len(bs) - 1)))

----------------------------------------------------------------------------
(* get_llm_summary *)

\* The no-credential message without the topic
NoKeySummaryBare(topic) == "AI Summary not available (API key required)."

NoKeySummary(topic) ==
  "AI Summary not available (API key required). This bill relates to " \o topic \o "."

FallbackSummary(topic) ==
  "This bill addresses " \o topic \o
  "-related policies and may impact regulatory compliance for businesses."

ErrorSummary(topic) ==
  "AI summary unavailable. This bill relates to " \o topic \o
  " and may have regulatory implications."

\* bill_text[:1000] raises on a bill_text that is no str, before the call is made.
LlmCalled(bill_text, key) == key /\ bill_text.t = "str"

LlmPrompt(bill_text, topic) ==
  "Summarize this bill for a compliance officer. Highlight what this means for " \o
  "businesses and " \o topic \o ": " \o Take(bill_text.s, 1000)

\* The body of the try block: [raised, val].  For the summarization API the
\* shapes of a parsed body are "notdict" (a dict: not a list), "nokey" (an empty
\* list), "null" (a list whose first element has no .get) and "items" (a list
\* whose first element is a dict; items[1] is its summary_text, Missing if absent).
LlmBody(bill_text, topic, key, o) ==
  IF ~key THEN [raised |-> FALSE, val |-> Str(NoKeySummary(topic))]
  ELSE IF bill_text.t # "str" THEN [raised |-> TRUE, val |-> None]
  ELSE IF o.kind # "http" THEN [raised |-> TRUE, val |-> None]
  ELSE IF o.status # 200 THEN [raised |-> FALSE, val |-> Str(FallbackSummary(topic))]
  ELSE IF o.shape = "notjson" THEN [raised |-> TRUE, val |-> None]
  ELSE IF o.shape \in {"notdict", "nokey"}
    THEN [raised |-> FALSE, val |-> Str(FallbackSummary(topic))]
  ELSE IF o.shape = "null" THEN [raised |-> TRUE, val |-> None]
  ELSE [raised |-> FALSE, val |-> Get(o.items[1], Str("Summary not available"))]

\* get_llm_summary with its except clause dropped: an exception of the body
\* reaches the caller
get_llm_summary_unguarded(bill_text, topic, key, o) == LlmBody(bill_text, topic, key, o)

\* key: whether HUGGINGFACE_API_KEY is set.  The except clause turns every
\* exception of the body into the error summary.
get_llm_summary(bill_text, topic, key, o) ==
  LET body == LlmBody(bill_text, topic, key, o)
  IN IF body.raised
       THEN [raised |-> FALSE, val |-> Str(ErrorSummary(topic))]
       ELSE body

----------------------------------------------------------------------------
(* The exception handlers of the two searches *)

\* The keyword handler answering with an empty list instead of the mock data
KeywordExceptEmpty(keyword) == [raised |-> FALSE, list |-> <<>>]

\* search_bills_by_keyword, lines 76-81: what the call gives once its body raised
KeywordExcept(keyword) == [raised |-> FALSE, list |-> _get_mock_bills(keyword)]

\* search_bills_by_state, lines 102-104
StateExcept(state, h) == [raised |-> FALSE, list |-> _get_mock_bills_by_state(state, h)]

\* _get_members_by_state, lines 176-178: an exception gives no members
MembersExcept == [raised |-> FALSE, members |-> <<>>]

----------------------------------------------------------------------------
(* The upstream data the requests are run against *)

\* Longest bill listing page
MaxPage == 2

\* Largest hash value tried
MaxHash == 0

SeqsUpTo(S, n) == UNION {[1..k -> S] : k \in 0..n}

ListedBills ==
  { [BlankBill EXCEPT !.type = Str("HR"), !.number = Str("1"),
                      !.title = Str("Healthcare Tax Act"), !.latestSummary = Obj,
                      !.updateDate = Str("2024-12-15T10:00:00Z")],
    [BlankBill EXCEPT !.type = Str("s"), !.title = Str("Tax Relief Act"),
                      !.introducedDate = Str("2024-1-5")],
    [BlankBill EXCEPT !.number = Str("7"), !.title = Str("Healthcare for All")],
    [BlankBill EXCEPT !.type = None, !.number = Str("4"), !.title = Str("Tax Cut")],
    [BlankBill EXCEPT !.type = Str("HR"), !.number = Str("3"), !.title = None] }

DetailBills ==
  { [BlankBill EXCEPT !.type = Str("HR"), !.number = Str("1"),
                      !.title = Str("Healthcare Tax Act of 2024"),
                      !.summary = Str("  Cuts payroll taxes. "),
                      !.introducedDate = Str("2024-12-01"),
                      !.updateDate = Str("2024-12-15T10:00:00Z"),
                      !.sponsors = List(<<[firstName |-> Str("Ann"), lastName |-> Str("Lee"),
                                           party |-> Str("D"), state |-> Str("TX")]>>)],
    [BlankBill EXCEPT !.type = Str("hr"), !.number = Str("1"), !.title = None,
                      !.summaries = List(<<None>>), !.updateDate = None] }

MemberA == [state |-> Str("TX"), bioguideId |-> Str("A000001")]

MemberB == [state |-> Str("tx"), bioguideId |-> Str("B000002")]

\* Eleven members of one state; the 1st, 10th and 11th have a bioguideId.
BigChamber ==
  [i \in 1..11 |->
     [state |-> Str("TX"),
      bioguideId |-> IF i \in {1, 10, 11} THEN Str("M" \o ToString(100 + i)) ELSE Str("")]]

ChamberPages ==
  { <<>>,
    <<MemberA>>,
    <<MemberB, [state |-> Str("CA"), bioguideId |-> Str("C000003")]>>,
    <<[state |-> Str("TX"), bioguideId |-> Missing]>>,
    <<MemberA, [state |-> None, bioguideId |-> Str("D000004")]>>,
    BigChamber }

SponsoredA ==
  [BlankBill EXCEPT !.type = Str("HR"), !.number = Str("10"),
                    !.title = Str("Texas Water Act"), !.updateDate = Str("2024-12-01")]

SponsoredB ==
  [BlankBill EXCEPT !.type = Str("XYZ"), !.number = Str("11"),
                    !.title = Str("Border Trade Act"), !.updateDate = Str("2024-12-20")]

SponsoredPages ==
  { <<>>,
    <<SponsoredA>>,
    <<SponsoredA, SponsoredB>>,
    <<[BlankBill EXCEPT !.type = Str("HR"), !.number = None, !.updateDate = None]>>,
    <<[BlankBill EXCEPT !.type = None, !.number = Str("13")]>> }

ListingOutcomes == Outcomes(SeqsUpTo(ListedBills, MaxPage))

DetailOutcomes == Outcomes({<<d>> : d \in DetailBills})

MemberOutcomes == Outcomes(ChamberPages)

SponsoredOutcomes == Outcomes(SponsoredPages)

LlmOutcomes ==
  Outcomes({<<v>> : v \in {Str("Cuts payroll taxes for small firms."), Str(""), None, Missing}})

HashValues == {-2} \cup 0..MaxHash

KeywordQueries == {"healthcare", "health", "climate action", "tax"}

StateQueries == {"tx", "Texas", "zz"}

\* The query field of the request body, before .strip()
RawQueries(type) ==
  (IF type = "state" THEN StateQueries ELSE KeywordQueries) \cup {"", "  ", " tax "}

\* limit of a call made on the tracker itself (api_search leaves the default)
Limits == {1, 2}

default_limit == 20

----------------------------------------------------------------------------
(* One request: api_search, or one of the two searches called on the tracker *)

NoRequest == [entry |-> "", type |-> "", query |-> "", include_ai |-> FALSE, limit |-> 0]

NoResponse ==
  [status |-> 0, success |-> FALSE, bills |-> <<>>, count |-> 0, query |-> "",
   search_type |-> "", error |-> ""]

\* jsonify({'success': True, 'bills': ..., 'count': len(bills), ...})
OkResponse(list) ==
  [status |-> 200, success |-> TRUE, bills |-> list, count |-> Len(list),
   query |-> req.query, search_type |-> req.type, error |-> ""]

ErrorResponse(status, msg) == [NoResponse EXCEPT !.status = status, !.error = msg]

\* get_llm_summary has not been called on its own
NoLlmCall == [text |-> Missing, topic |-> "", key |-> FALSE, o |-> Timeout]

\* api_export has not answered
NoExport == [status |-> 0, error |-> "", csv |-> <<>>]

Init ==
  /\ normIn = "" /\ normOut = Missing
  /\ mockCalls = <<>>
  /\ fmtIn = [kind |-> "", bill |-> BlankBill] /\ fmtOut = Nothing
  /\ llmIn = NoLlmCall /\ llmOut = [raised |-> FALSE, val |-> Missing]
  /\ expIn = MissingList /\ expOut = NoExport
  /\ hfKey \in BOOLEAN
  /\ pyhash = <<>>
  /\ pc = "idle"
  /\ req = NoRequest
  /\ calls = <<>>
  /\ page = <<>>
  /\ filtered_bills = <<>> /\ detailed_bills = <<>> /\ members = <<>> /\ all_bills = <<>>
  /\ idx = 0
  /\ bills = <<>>
  /\ response = NoResponse

ClearLocals ==
  /\ filtered_bills' = <<>> /\ detailed_bills' = <<>> /\ members' = <<>> /\ all_bills' = <<>>

\* The search returns list to its caller; api_search goes on to the enrichment
\* loop, or answers at once when there is nothing to enrich.
Finish(list) ==
  /\ ClearLocals
  /\ bills' = list
  /\ IF req.entry = "direct"
       THEN pc' = "done" /\ idx' = 0 /\ response' = response
       ELSE IF req.include_ai /\ list # <<>>
         THEN pc' = "enrich" /\ idx' = 1 /\ response' = response
         ELSE pc' = "done" /\ idx' = 0 /\ response' = OkResponse(list)

\* An exception leaves the search: the caller of the tracker sees it, api_search
\* answers 500 (lines 600-602).
Propagate ==
  /\ ClearLocals
  /\ bills' = <<>>
  /\ idx' = 0
  /\ IF req.entry = "direct"
       THEN pc' = "raised" /\ response' = response
       ELSE pc' = "done"
            /\ response' = ErrorResponse(500, "An error occurred while searching for bills")

Handled(r) == IF r.raised THEN Propagate ELSE Finish(r.list)

\* api_search, lines 573-584
ApiRequest ==
  /\ pc = "idle"
  /\ \E type \in {"keyword", "state"}, include_ai \in BOOLEAN :
       \E raw \in RawQueries(type) :
         LET query == Strip(raw)
         IN IF query = ""
              THEN /\ pc' = "done"
                   /\ response' = ErrorResponse(400, "Query parameter is required")
                   /\ UNCHANGED req
              ELSE /\ req' = [entry |-> "api", type |-> type, query |-> query,
                              include_ai |-> include_ai, limit |-> default_limit]
                   /\ pc' = IF type = "state" THEN "st_house" ELSE "kw_list"
                   /\ UNCHANGED response
  /\ UNCHANGED <<unitVars, hfKey, page, pyhash, calls, locals, idx, bills>>

\* tracker.search_bills_by_keyword(q, limit) / search_bills_by_state(q, limit)
DirectCall ==
  /\ pc = "idle"
  /\ \E type \in {"keyword", "state"}, limit \in Limits :
       \E query \in (IF type = "state" THEN StateQueries ELSE KeywordQueries) :
         /\ req' = [entry |-> "direct", type |-> type, query |-> query,
                    include_ai |-> FALSE, limit |-> limit]
         /\ pc' = IF type = "state" THEN "st_house" ELSE "kw_list"
  /\ UNCHANGED <<unitVars, hfKey, page, pyhash, calls, locals, idx, bills, response>>

\* What the log keeps of an upstream's answer: "exception" (requests raised),
\* "status" (a status other than 200), "malformed" (a 200 whose body the code
\* cannot read), "empty" (a readable body with nothing in it for this call), "ok".
Answer(o, malformed, empty) ==
  IF o.kind # "http" THEN "exception"
  ELSE IF o.status # 200 THEN "status"
  ELSE IF malformed THEN "malformed"
  ELSE IF empty THEN "empty"
  ELSE "ok"

BadShape(o) == o.shape \in {"notjson", "notdict", "null"}

Call(ep, arg, answer) == [ep |-> ep, arg |-> arg, answer |-> answer]

\* search_bills_by_keyword, lines 49-66 and 76-81: the listing fetch
KwListFetch ==
  /\ pc = "kw_list"
  /\ \E o \in ListingOutcomes :
       LET failed == \/ o.kind # "http"
                     \/ o.status >= 400
                     \/ BadShape(o)
                     \/ FilterRaises(o.items)
           filtered == _filter_bills_by_keyword(o.items, req.query)
       IN /\ page' = o.items
          /\ calls' = Append(calls,
                        Call("bill_list", ToString(Min(req.limit, 100)),
                             Answer(o, BadShape(o) \/ FilterRaises(o.items), o.items = <<>>)))
          /\ IF failed THEN Handled(KeywordExcept(req.query))
             ELSE IF Take(filtered, req.limit) = <<>> THEN Finish(<<>>)
             ELSE /\ pc' = "kw_detail"
                  /\ filtered_bills' = filtered
                  /\ detailed_bills' = <<>>
                  /\ idx' = 1
                  /\ UNCHANGED <<members, all_bills, bills, response>>
  /\ UNCHANGED <<unitVars, hfKey, pyhash, req>>

\* search_bills_by_keyword, lines 68-74: one turn of the detail loop
KwDetail ==
  /\ pc = "kw_detail"
  /\ \E o \in DetailOutcomes :
       LET bill == filtered_bills[idx]
           r == _get_bill_details(bill, o)
           next == IF r.ok THEN Append(detailed_bills, r.bill) ELSE detailed_bills
       IN /\ calls' = IF DetailCalled(bill)
                        THEN Append(calls,
                               Call("bill_detail", DetailUrl(bill),
                                    Answer(o, BadShape(o) \/ (o.shape = "items" /\ ~r.ok),
                                           o.shape = "nokey")))
                        ELSE calls
          /\ IF idx = Min(Len(filtered_bills), req.limit)
               THEN Finish(next)
               ELSE /\ detailed_bills' = next
                    /\ idx' = idx + 1
                    /\ UNCHANGED <<pc, filtered_bills, members, all_bills, bills, response>>
  /\ UNCHANGED <<unitVars, hfKey, page, pyhash, req>>

\* The hash function extended to the strings the state mock needs.
Hashed(keys) ==
  {pyhash @@ f : f \in [keys \ DOMAIN pyhash -> HashValues]}

\* search_bills_by_state, line 90: no members
ReturnStateMock ==
  \E h \in Hashed(HashKeys(req.query)) :
    /\ pyhash' = h
    /\ Finish(_get_mock_bills_by_state(req.query, h))

\* search_bills_by_state, lines 102-104: an exception in the body
ExceptStateMock ==
  \E h \in Hashed(HashKeys(req.query)) :
    /\ pyhash' = h
    /\ Handled(StateExcept(req.query, h))

\* search_bills_by_state without its test for an empty member list
NoMembersUnchecked(ms) == FALSE

\* search_bills_by_state, line 89: if not members
NoMembers(ms) == ms = <<>>

MemberAnswer(o, state_abbr) ==
  Answer(o, BadShape(o) \/ MemberRaises(o.items), MembersOf(o.items, state_abbr) = <<>>)

\* _get_members_by_state, lines 146-163: the state code and the House members
StHouse ==
  /\ pc = "st_house"
  /\ LET state_abbr == _normalize_state(req.query)
     IN IF ~Truthy(state_abbr)
          THEN ReturnStateMock /\ UNCHANGED calls
          ELSE \E o \in MemberOutcomes :
                 LET got == ChamberMembers(o, state_abbr.s)
                     c == IF got.raised THEN MembersExcept ELSE got
                 IN /\ calls' = Append(calls,
                                  Call("member_house", ToString(current_congress),
                                       MemberAnswer(o, state_abbr.s)))
                    /\ IF c.raised THEN ExceptStateMock
                       ELSE IF got.raised THEN ReturnStateMock
                       ELSE /\ members' = c.members
                            /\ pc' = "st_senate"
                            /\ UNCHANGED <<pyhash, filtered_bills, detailed_bills,
                                           all_bills, idx, bills, response>>
  /\ UNCHANGED <<unitVars, hfKey, page, req>>

\* _get_members_by_state, lines 165-178, and search_bills_by_state, lines 89-93
StSenate ==
  /\ pc = "st_senate"
  /\ \E o \in MemberOutcomes :
       LET state_abbr == _normalize_state(req.query).s
           got == ChamberMembers(o, state_abbr)
           c == IF got.raised THEN MembersExcept
                ELSE [raised |-> FALSE, members |-> members \o got.members]
       IN /\ calls' = Append(calls,
                        Call("member_senate", ToString(current_congress),
                             MemberAnswer(o, state_abbr)))
          /\ IF c.raised THEN ExceptStateMock
             ELSE IF NoMembers(c.members) THEN ReturnStateMock
             ELSE IF c.members = <<>> THEN Finish(<<>>) /\ UNCHANGED pyhash
             ELSE /\ members' = c.members
                  /\ all_bills' = <<>>
                  /\ idx' = 1
                  /\ pc' = "st_sponsored"
                  /\ UNCHANGED <<pyhash, filtered_bills, detailed_bills, bills, response>>
  /\ UNCHANGED <<unitVars, hfKey, page, req>>

\* A cut that lets an eleventh member through
member_cap_wide == 10 + 1

\* members[:10]
member_cap == 10

\* search_bills_by_state, lines 94-100: one member's sponsored legislation, and
\* after the last member the sort and the cut to limit
StSponsored ==
  /\ pc = "st_sponsored"
  /\ \E o \in SponsoredOutcomes :
       LET bioguide_id == Get(members[idx].bioguideId, Str(""))
           next == all_bills \o _get_member_sponsored_bills(bioguide_id, o)
       IN /\ calls' = IF SponsoredCalled(bioguide_id)
                        THEN Append(calls,
                               Call("sponsored", bioguide_id.s,
                                    Answer(o, BadShape(o), o.items = <<>>)))
                        ELSE calls
          /\ IF idx = Min(Len(members), member_cap)
               THEN IF SortRaises(next)
                      THEN ExceptStateMock
                      ELSE Finish(Take(SortDesc(next), req.limit)) /\ UNCHANGED pyhash
               ELSE /\ all_bills' = next
                    /\ idx' = idx + 1
                    /\ UNCHANGED <<pyhash, pc, filtered_bills, detailed_bills, members,
                                   bills, response>>
  /\ UNCHANGED <<unitVars, hfKey, page, req>>

\* An attachment that also overwrites the bill's summary
AttachOverSummary(list, i, val) == [list EXCEPT ![i].summary = val, ![i].ai_summary = val]

\* api_search, line 590: bill['ai_summary'] = ...
Attach(list, i, val) == [list EXCEPT ![i].ai_summary = val]

\* api_search, lines 586-598: one turn of the enrichment loop, and after the
\* last bill the response
Enrich ==
  /\ pc = "enrich"
  /\ \E o \in LlmOutcomes :
       LET bill_text == bills[idx].summary
           r == get_llm_summary(bill_text, req.query, hfKey, o)
           next == Attach(bills, idx, r.val)
       IN /\ calls' = IF LlmCalled(bill_text, hfKey)
                        THEN Append(calls,
                               Call("llm", LlmPrompt(bill_text, req.query),
                                    Answer(o, o.shape \in {"notjson", "null"},
                                           o.shape \in {"notdict", "nokey"})))
                        ELSE calls
          /\ IF r.raised
               THEN /\ pc' = "done"
                    /\ response' =
                         ErrorResponse(500, "An error occurred while searching for bills")
                    /\ UNCHANGED <<bills, idx>>
               ELSE /\ bills' = next
                    /\ IF idx = Len(bills)
                         THEN pc' = "done" /\ idx' = 0 /\ response' = OkResponse(next)
                         ELSE pc' = "enrich" /\ idx' = idx + 1 /\ response' = response
  /\ UNCHANGED <<unitVars, hfKey, page, pyhash, req, locals>>

Next ==
  \/ ApiRequest
  \/ DirectCall
  \/ KwListFetch
  \/ KwDetail
  \/ StHouse
  \/ StSenate
  \/ StSponsored
  \/ Enrich

Spec == Init /\ [][Next]_vars

----------------------------------------------------------------------------
(* Calls of _normalize_state on its own *)

\* "cA" from "CA": the first letter lower-cased.
LowerFirst(s) == LowerChar(Head(s)) \o Tail(s)

OtherInputs == {"Atlantis", "zz", "ZZ", "xq", "Zz", "", "x", "usa", " ca", "texas ", "new  york"}

NormInputs ==
  UNION { {n, Upper(n), Title(n)} : n \in StateNames }
    \cup UNION { {a, Lower(a), Title(a), LowerFirst(a)} : a \in StateAbbrs }
    \cup OtherInputs

NormInit == Init /\ hfKey = FALSE

NormCall ==
  /\ \E s \in NormInputs :
       /\ normIn' = s
       /\ normOut' = _normalize_state(s)
  /\ UNCHANGED <<mockCalls, fmtIn, fmtOut, llmIn, llmOut, expIn, expOut, reqVars>>

NormNext == NormCall

SpecNorm == NormInit /\ [][NormNext]_vars

\* What a state input names: the abbreviation of a full name in any case, else
\* the input upper-cased.
NamedState(s) == IF Lower(s) \in StateNames THEN AbbrOf(Lower(s)) ELSE Upper(s)

Recognized(s) ==
  \/ Strip(Lower(s)) \in StateNames
  \/ Len(s) = 2 /\ Upper(s) \in StateAbbrs

\* C1: a full state name in any letter case gives its abbreviation, a valid
\* 2-letter abbreviation in any case gives itself upper-cased, and an
\* unrecognized input whose length is not 2 gives None.
C1_NormalizeResolves ==
  normOut.t # "missing" =>
    /\ Lower(normIn) \in StateNames => normOut = Str(AbbrOf(Lower(normIn)))
    /\ (Len(normIn) = 2 /\ Upper(normIn) \in StateAbbrs) => normOut = Str(Upper(normIn))
    /\ (~Recognized(normIn) /\ Len(normIn) # 2) => normOut = None

\* C2: a 2-letter input that is no abbreviation of the table is returned
\* upper-cased, not as None.
C2_UnknownTwoLettersPassThrough ==
  (normOut.t # "missing" /\ Len(normIn) = 2 /\ Upper(normIn) \notin StateAbbrs)
    => normOut = Str(Upper(normIn))

----------------------------------------------------------------------------
(* Calls of _get_mock_bills_by_state on its own, in one process *)

\* Calls made in one run
MaxMockCalls == 2

MockStates == {"Texas", "TX", "tx", "zz"}

MockInit == Init /\ hfKey = FALSE

MockCall ==
  /\ Len(mockCalls) < MaxMockCalls
  /\ \E state \in MockStates :
       \E h \in Hashed(HashKeys(state)) :
         /\ pyhash' = h
         /\ mockCalls' = Append(mockCalls,
                           [state |-> state, bills |-> _get_mock_bills_by_state(state, h)])
  /\ UNCHANGED <<normIn, normOut, fmtIn, fmtOut, llmIn, llmOut, expIn, expOut, hfKey, pc, req,
                 calls, page, locals, idx, bills, response>>

MockNext == MockCall

SpecMock == MockInit /\ [][MockNext]_vars

Numbers(bs) == [i \in 1..Len(bs) |-> bs[i].number]

\* C7: the state mock is two bills, one HR and one S, whose numbers depend on
\* the state named alone: calls that name the same state ("Texas", "TX") give
\* the same numbers.
C7_MockNumbersByState ==
  \A i, j \in 1..Len(mockCalls) :
    /\ Len(mockCalls[i].bills) = 2
    /\ mockCalls[i].bills[1].bill_type = Str("HR")
    /\ mockCalls[i].bills[2].bill_type = Str("S")
    /\ NamedState(mockCalls[i].state) = NamedState(mockCalls[j].state)
         => Numbers(mockCalls[i].bills) = Numbers(mockCalls[j].bills)

----------------------------------------------------------------------------
(* Calls of _format_basic_bill and _format_detailed_bill on their own *)

FormatTypes == {Missing, None, Str(""), Str("HR"), Str("s"), Str("hjres"), Str("SCONRES"), Str("XYZ")}

FormatNumbers == {Missing, None, Str(""), Str("42")}

FormatTitles == {Missing, None, Str("Tax Relief Act")}

FormatRecords ==
  {[BlankBill EXCEPT !.type = t, !.number = n, !.title = ti] :
     t \in FormatTypes, n \in FormatNumbers, ti \in FormatTitles}

FormatInit == Init /\ hfKey = FALSE

FormatCall ==
  /\ \E kind \in {"basic", "detailed"}, bill \in FormatRecords :
       /\ fmtIn' = [kind |-> kind, bill |-> bill]
       /\ fmtOut' = IF kind = "basic" THEN _format_basic_bill(bill)
                    ELSE _format_detailed_bill(bill)
  /\ UNCHANGED <<normIn, normOut, mockCalls, llmIn, llmOut, expIn, expOut, reqVars>>

FormatNext == FormatCall

SpecFormat == FormatInit /\ [][FormatNext]_vars

\* The record has no usable value under the key: absent, null or empty.
Lacks(v) == v.t \in {"missing", "none"} \/ v = Str("")

\* C9: the congress_url of a formatted bill is the bare domain when the record
\* lacks a type or a number, and else the 118th-congress URL of its mapped
\* segment and its number.
C9_CongressUrl ==
  fmtOut.ok =>
    fmtOut.bill.congress_url =
      IF Lacks(fmtIn.bill.type) \/ Lacks(fmtIn.bill.number)
        THEN Str("https://www.congress.gov")
        ELSE Str("https://www.congress.gov/bill/118th-congress/"
                   \o UrlType(Upper(fmtIn.bill.type.s)) \o "/" \o fmtIn.bill.number.s)

----------------------------------------------------------------------------
(* Calls of get_llm_summary on its own *)

LlmTexts == {Str("Cuts payroll taxes for small firms."), None}

\* "general" is the default of the topic parameter
LlmTopics == {"tax", "climate", "general"}

LlmInit == Init /\ hfKey = FALSE

LlmCall ==
  /\ \E text \in LlmTexts, topic \in LlmTopics, key \in BOOLEAN, o \in LlmOutcomes :
       /\ llmIn' = [text |-> text, topic |-> topic, key |-> key, o |-> o]
       /\ llmOut' = get_llm_summary(text, topic, key, o)
  /\ UNCHANGED <<normIn, normOut, mockCalls, fmtIn, fmtOut, expIn, expOut, reqVars>>

LlmNext == LlmCall

SpecLlm == LlmInit /\ [][LlmNext]_vars

\* The summarization call gave a 200 response holding a list whose first
\* element carries a generated text.
LlmSucceeded(o) ==
  /\ o.kind = "http" /\ o.status = 200 /\ o.shape = "items"
  /\ o.items[1].t = "str" /\ o.items[1].s # ""

\* C11: when the summarization call is made and does not succeed with a
\* well-formed response, get_llm_summary returns one of the canned fallback
\* strings, which contains the topic.
C11_FailureGivesCannedFallback ==
  (llmIn.topic # "" /\ llmIn.key /\ ~LlmSucceeded(llmIn.o)) =>
    /\ ~llmOut.raised
    /\ llmOut.val \in {Str(FallbackSummary(llmIn.topic)), Str(ErrorSummary(llmIn.topic))}
    /\ Contains(llmOut.val.s, llmIn.topic)

----------------------------------------------------------------------------
(* api_export *)

\* csv.writer, default dialect: a field holding the delimiter or the quote
\* character is written between quotes with each quote doubled; None is
\* written as the empty field.  A row is one line; csv holds the lines without
\* their terminator.
RECURSIVE NeedsQuote(_)
NeedsQuote(s) ==
  IF s = "" THEN FALSE
  ELSE Head(s) \in {",", "\""} \/ NeedsQuote(Tail(s))

RECURSIVE DoubleQuotes(_)
DoubleQuotes(s) ==
  IF s = "" THEN ""
  ELSE (IF Head(s) = "\"" THEN "\"\"" ELSE Head(s)) \o DoubleQuotes(Tail(s))

CsvField(v) ==
  LET s == IF v.t = "str" THEN v.s ELSE ""
  IN IF NeedsQuote(s) THEN "\"" \o DoubleQuotes(s) \o "\"" ELSE s

RECURSIVE writerow(_)
writerow(cells) ==
  IF Len(cells) = 1 THEN CsvField(cells[1])
  ELSE CsvField(Head(cells)) \o "," \o writerow(Tail(cells))

export_header ==
  <<Str("Bill ID"), Str("Title"), Str("Summary"), Str("Introduced Date"), Str("Sponsor"),
    Str("Type"), Str("Congress URL")>>

\* The row of a bill with Type and Congress URL in the order of the Bill's fields
ExportRowBillOrder(bill) ==
  <<Get(bill.id, Str("")), Get(bill.title, Str("")), Get(bill.summary, Str("")),
    Get(bill.introduced_date, Str("")), Get(bill.sponsor, Str("")),
    Get(bill.congress_url, Str("")), Get(bill.bill_type, Str(""))>>

\* lines 624-632
ExportRow(bill) ==
  <<Get(bill.id, Str("")), Get(bill.title, Str("")), Get(bill.summary, Str("")),
    Get(bill.introduced_date, Str("")), Get(bill.sponsor, Str("")),
    Get(bill.bill_type, Str("")), Get(bill.congress_url, Str(""))>>

\* The body of the try block.  posted is the bills key of the request body;
\* t = "nobody" is a request whose body is no JSON object (data.get raises).
ExportBody(posted) ==
  IF posted.t = "nobody" THEN [raised |-> TRUE, out |-> NoExport]
  ELSE IF posted.t # "list" \/ posted.l = <<>>
    THEN [raised |-> FALSE,
          out |-> [status |-> 400, error |-> "No bills to export", csv |-> <<>>]]
  ELSE [raised |-> FALSE,
        out |-> [status |-> 200, error |-> "",
                 csv |-> <<writerow(export_header)>> \o
                         [i \in 1..Len(posted.l) |-> writerow(ExportRow(posted.l[i]))]]]

api_export(posted) ==
  LET body == ExportBody(posted)
  IN IF body.raised
       THEN [status |-> 500, error |-> "An error occurred while exporting data", csv |-> <<>>]
       ELSE body.out

\* Bills posted in one export
MaxExport == 3

ExportBill(id, title, summary, type, url) ==
  [NoBill EXCEPT !.id = id, !.title = title, !.summary = summary,
                 !.introduced_date = Str("2024-12-15"), !.sponsor = Str("Rep. O'Neil (D-TX)"),
                 !.bill_type = type, !.congress_url = url]

ExportBills ==
  {ExportBill(Str("HR1"), Str("Tax Relief Act"), Str("Cuts taxes."), Str("HR"),
              Str("https://www.congress.gov/bill/118th-congress/house-bill/1")),
   ExportBill(Str("S2"), Str("A \"Fair\" Deal, Part 2"), Str("Says \"no\", firmly"), Str("S"),
              Str("https://www.congress.gov/bill/118th-congress/senate-bill/2")),
   ExportBill(Str("HR3"), None, Missing, Str("HR"), Str("https://www.congress.gov")),
   ExportBill(Str("S2"), Str(","), Str(""), Str("S"), Missing),
   NoBill}

ExportPosts ==
  {MissingList, NoneList, [t |-> "nobody", l |-> <<>>]}
    \cup {List(l) : l \in SeqsUpTo(ExportBills, MaxExport)}

ExportInit == Init /\ hfKey = FALSE

\* One request to /api/export
ExportCall ==
  /\ expOut = NoExport
  /\ \E posted \in ExportPosts :
       /\ expIn' = posted
       /\ expOut' = api_export(posted)
  /\ UNCHANGED <<normIn, normOut, mockCalls, fmtIn, fmtOut, llmIn, llmOut, reqVars>>

ExportNext == ExportCall

SpecExport == ExportInit /\ [][ExportNext]_vars

\* Reading a line back: the fields between the commas that stand outside
\* quotes, with the quotes removed and doubled quotes made single.
RECURSIVE SingleQuotes(_)
SingleQuotes(s) ==
  IF Len(s) < 2 THEN s
  ELSE IF Head(s) = "\"" /\ Head(Tail(s)) = "\""
    THEN "\"" \o SingleQuotes(Tail(Tail(s)))
    ELSE Head(s) \o SingleQuotes(Tail(s))

Least(S) == CHOOSE j \in S : \A k \in S : j <= k

QuotesUpTo(s, j) == Cardinality({k \in 2..j : CharAt(s, k) = "\""})

\* The place of the last character of the first field of s
FieldEnd(s) ==
  IF Head(s) = "\""
    THEN Least({j \in 2..Len(s) : /\ CharAt(s, j) = "\""
                                   /\ QuotesUpTo(s, j) % 2 = 1
                                   /\ (j = Len(s) \/ CharAt(s, j + 1) # "\"")})
    ELSE Least({j \in 0..Len(s) : j = Len(s) \/ CharAt(s, j + 1) = ","})

RECURSIVE ReadLine(_)
ReadLine(s) ==
  IF s = "" THEN <<"">>
  ELSE LET e == FieldEnd(s)
           field == IF Head(s) = "\"" THEN SingleQuotes(SubSeq(s, 2, e - 1))
                    ELSE SubSeq(s, 1, e)
       IN IF e = Len(s) THEN <<field>>
          ELSE <<field>> \o ReadLine(SubSeq(s, e + 2, Len(s)))

\* The text of a field of a posted bill (nothing for an absent or null field)
Text(v) == IF v.t = "str" THEN v.s ELSE ""

\* C13: an export with an empty or absent bills list answers 400 and writes no
\* CSV; an export of n >= 1 bills writes the header row of the seven columns
\* and then n rows, row i holding the id, title, summary, introduced_date,
\* sponsor, bill_type and congress_url of bill i.
C13_ExportRows ==
  /\ (expOut.status # 0 /\ (expIn.t \in {"missing", "none"} \/ (expIn.t = "list" /\ expIn.l = <<>>)))
       => expOut.status = 400 /\ expOut.csv = <<>>
  /\ (expOut.status # 0 /\ expIn.t = "list" /\ expIn.l # <<>>) =>
       /\ expOut.status = 200
       /\ Len(expOut.csv) = Len(expIn.l) + 1
       /\ ReadLine(expOut.csv[1]) =
            <<"Bill ID", "Title", "Summary", "Introduced Date", "Sponsor", "Type", "Congress URL">>
       /\ \A i \in 1..Len(expIn.l) :
            LET b == expIn.l[i]
            IN ReadLine(expOut.csv[i + 1]) =
                 <<Text(b.id), Text(b.title), Text(b.summary), Text(b.introduced_date),
                   Text(b.sponsor), Text(b.bill_type), Text(b.congress_url)>>

C13_Witness ==
  /\ expOut.status = 200
  /\ Len(expIn.l) = 3
  /\ expIn.l[1].id = Str("S2") /\ expIn.l[2].id = Str("HR1")
  /\ expOut.csv[2] =
       "S2,\"A \"\"Fair\"\" Deal, Part 2\",\"Says \"\"no\"\", firmly\",2024-12-15,Rep. O'Neil (D-TX),S,https://www.congress.gov/bill/118th-congress/senate-bill/2"

----------------------------------------------------------------------------
(* Claims about one request *)

\* The search has returned (api_search may still be enriching).
Returned == pc \in {"done", "enrich"} /\ req.entry # ""

Failure == {"exception", "status", "malformed"}

StringFields ==
  {"id", "title", "summary", "introduced_date", "sponsor", "congress_url", "bill_type",
   "number", "updateDate"}

\* A bill without its ai_summary
Core(b) == [b EXCEPT !.ai_summary = Missing]

Cores(bs) == [i \in 1..Len(bs) |-> Core(bs[i])]

\* C3: for a non-empty query no search raises, and api_search answers 200 with
\* success and count = the number of bills, whatever the upstreams do.
C3_SearchNeverFails ==
  /\ pc # "raised"
  /\ (pc = "done" /\ req.entry = "api") =>
       /\ response.status = 200
       /\ response.success
       /\ response.count = Len(response.bills)

C3_Witness ==
  /\ pc = "done" /\ req.entry = "api" /\ req.include_ai
  /\ response.status = 200 /\ response.count = 2
  /\ Len(calls) = 3
  /\ \A i \in 1..3 : calls[i].answer \in Failure

\* C4: every bill a search returns has each field but ai_summary equal to a
\* string, never null.
C4_FieldsAreStrings ==
  \A i \in 1..Len(bills) : \A f \in StringFields : bills[i][f].t = "str"

\* The topics of mock_bills_db that contain, or are contained in, the keyword
MatchingTopics(keyword) ==
  {n \in 1..Len(mock_bills_db) :
     \/ Contains(Lower(keyword), mock_bills_db[n][1])
     \/ Contains(mock_bills_db[n][1], Lower(keyword))}

\* The place in the result of the k-th canned bill of topic n
PlaceOf(topics, n, k) ==
  k + Cardinality({<<m, j>> \in (topics \X (1..2)) : m < n /\ j <= Len(mock_bills_db[m][2])})

IsCannedData(bs, keyword) ==
  LET topics == MatchingTopics(keyword)
  IN /\ Len(bs) = Cardinality({<<m, j>> \in (topics \X (1..2)) : j <= Len(mock_bills_db[m][2])})
     /\ \A n \in topics : \A k \in 1..Len(mock_bills_db[n][2]) :
          LET b == bs[PlaceOf(topics, n, k)]
              c == mock_bills_db[n][2][k]
          IN /\ b.id = Str(c.type \o c.number)
             /\ b.title = Str(c.title) /\ b.summary = Str(c.summary)
             /\ b.sponsor = Str(c.sponsor) /\ b.introduced_date = Str(c.introducedDate)
             /\ b.bill_type = Str(c.type) /\ b.number = Str(c.number)

IsGenericData(bs, keyword) ==
  /\ Len(bs) = 2
  /\ bs[1].id = Str("HR5001") /\ bs[2].id = Str("S2301")
  /\ \A i \in 1..2 : Contains(bs[i].title.s, Title(keyword)) /\ Contains(bs[i].summary.s, keyword)

\* C5: when the listing fetch of a keyword search fails, the result is the
\* keyword mock data: the canned bills of the matching topics, or two generic
\* bills naming the keyword; for "healthcare" the two healthcare bills, with
\* house-bill and senate-bill URLs.
C5_KeywordMockOnFailure ==
  (Returned /\ req.type = "keyword" /\ calls[1].answer \in Failure) =>
    /\ IF MatchingTopics(req.query) = {}
         THEN IsGenericData(bills, req.query)
         ELSE IsCannedData(bills, req.query)
    /\ req.query = "healthcare" =>
         /\ <<bills[1].id, bills[2].id>> = <<Str("HR3421"), Str("S1247")>>
         /\ Len(bills) = 2
         /\ \A i \in 1..2 : \/ Contains(bills[i].congress_url.s, "house-bill")
                            \/ Contains(bills[i].congress_url.s, "senate-bill")

C5_Witness ==
  /\ pc = "done" /\ req.type = "keyword" /\ req.query = "healthcare"
  /\ calls[1].answer = "status"
  /\ Len(bills) = 2

\* bs is what _get_mock_bills_by_state gives for the request's state.
IsStateMock(bs) ==
  /\ HashKeys(req.query) \subseteq DOMAIN pyhash
  /\ Cores(bs) = _get_mock_bills_by_state(req.query, pyhash)

MemberCalls == {i \in 1..Len(calls) : calls[i].ep \in {"member_house", "member_senate"}}

SponsoredCalls == {i \in 1..Len(calls) : calls[i].ep = "sponsored"}

\* C6: a state search whose state is not resolved, or whose member lists hold
\* no member of the state, returns the state mock and fetches no sponsored
\* legislation.
C6_NoMembersGivesMock ==
  (/\ Returned /\ req.type = "state"
   /\ \/ ~Truthy(_normalize_state(req.query))
      \/ \A i \in MemberCalls : calls[i].answer # "ok")
    => IsStateMock(bills) /\ SponsoredCalls = {}

C6_Witness ==
  /\ pc = "done" /\ req.type = "state"
  /\ Cardinality(MemberCalls) = 2
  /\ \A i \in MemberCalls : calls[i].answer = "empty"
  /\ Len(bills) = 2

\* C8: when any upstream call of a state search fails (exception or a status
\* other than 200), the result is the state mock.
C8_AnyFailureGivesMock ==
  (/\ Returned /\ req.type = "state"
   /\ \E i \in MemberCalls \cup SponsoredCalls : calls[i].answer \in {"exception", "status"})
    => IsStateMock(bills)

\* C10: get_llm_summary never raises and every summary it returns is a
\* non-empty string.
C10_SummaryNonEmpty ==
  /\ response.status # 500
  /\ \A i \in 1..Len(bills) :
       bills[i].ai_summary.t # "missing" =>
         bills[i].ai_summary.t = "str" /\ bills[i].ai_summary.s # ""

\* api_search has answered 200
Answered == pc = "done" /\ req.entry = "api" /\ response.status = 200

LlmCalls == {i \in 1..Len(calls) : calls[i].ep = "llm"}

\* C12: a bill of the response carries ai_summary exactly when include_ai was
\* requested; with no HUGGINGFACE_API_KEY each ai_summary is a non-empty string
\* containing the query and the summarization API is not called.
C12_AiSummaryWhenRequested ==
  Answered =>
    /\ \A i \in 1..Len(response.bills) :
         (response.bills[i].ai_summary.t # "missing") <=> req.include_ai
    /\ (req.include_ai /\ ~hfKey) =>
         /\ LlmCalls = {}
         /\ \A i \in 1..Len(response.bills) :
              LET a == response.bills[i].ai_summary
              IN a.t = "str" /\ a.s # "" /\ Contains(a.s, req.query)

C12_Witness ==
  /\ Answered /\ req.include_ai /\ ~hfKey
  /\ req.query = "climate action"
  /\ Len(response.bills) = 2
  /\ Contains(response.bills[2].ai_summary.s, "climate action")

\* C14: no two bills of a list a search returns have the same id.
C14_UniqueIds ==
  Returned => \A i, j \in 1..Len(bills) : bills[i].id = bills[j].id => i = j

\* The search has returned and api_search has attached nothing yet.
JustReturned == Returned /\ \A i \in 1..Len(bills) : bills[i].ai_summary.t = "missing"

\* The listed bill's title contains the keyword, case aside
TitleHasKeyword(b) ==
  b.title.t = "str" /\ Contains(Lower(b.title.s), Lower(req.query))

\* The bills of the listing page whose title contains the keyword, in page order
Matched == SelectSeq(page, TitleHasKeyword)

\* bs holds from place i on, in order, what the matching bills taken[k],
\* taken[k+1], ... contribute, c detail fetches having been made before them
\* (the detail fetches follow the listing fetch in the log, one per bill that
\* has a type and a number): the basic form of a bill whose detail fetch failed
\* (exception or a status other than 200) or was not made, nothing if the
\* record cannot be formatted; and one bill or none for a bill whose detail
\* fetch was answered.
RECURSIVE DerivedFrom(_, _, _, _, _)
DerivedFrom(bs, taken, i, k, c) ==
  IF k > Len(taken) THEN i = Len(bs) + 1
  ELSE LET n == IF DetailCalled(taken[k]) THEN c + 1 ELSE c
       IN IF DetailCalled(taken[k]) /\ calls[1 + n].answer \notin {"exception", "status"}
            THEN \/ DerivedFrom(bs, taken, i, k + 1, n)
                 \/ i <= Len(bs) /\ DerivedFrom(bs, taken, i + 1, k + 1, n)
            ELSE \E basic \in {_format_basic_bill(taken[k])} :
                   IF basic.ok
                     THEN /\ i <= Len(bs)
                          /\ bs[i] = basic.bill
                          /\ DerivedFrom(bs, taken, i + 1, k + 1, n)
                     ELSE DerivedFrom(bs, taken, i, k + 1, n)

IsPrefix(a, b) == Len(a) <= Len(b) /\ SubSeq(b, 1, Len(a)) = a

\* The step made at most one upstream call, to endpoint ep.
AtMostOneCall(ep) ==
  \/ calls' = calls
  \/ /\ Len(calls') = Len(calls) + 1
     /\ IsPrefix(calls, calls')
     /\ calls'[Len(calls')].ep = ep

\* C16: a state search asks for the House member list at most once, then the
\* Senate member list at most once, then for the sponsored legislation of at
\* most the first 10 matching members (the House matches first), one member
\* after the other in that order and each at most once; no call is repeated.
C16_StateCallOrder ==
  [][/\ pc = "st_house" =>
          /\ calls = <<>>
          /\ AtMostOneCall("member_house")
          /\ pc' # "st_house"
     /\ pc = "st_senate" =>
          /\ Len(calls) = 1 /\ calls[1].ep = "member_house"
          /\ AtMostOneCall("member_senate")
          /\ pc' # "st_senate"
          /\ pc' = "st_sponsored" => IsPrefix(members, members') /\ idx' = 1
     /\ pc = "st_sponsored" =>
          /\ idx <= 10 /\ idx <= Len(members)
          /\ Cardinality(MemberCalls) = 2
          /\ Cardinality(SponsoredCalls) <= idx - 1
          /\ \A i \in SponsoredCalls : i > 2
          /\ AtMostOneCall("sponsored")
          /\ calls' # calls => calls'[Len(calls')].arg = members[idx].bioguideId.s
          /\ pc' = "st_sponsored" => idx' = idx + 1 /\ members' = members
    ]_vars

C16_Witness ==
  /\ pc = "st_sponsored" /\ idx = 10 /\ Len(members) = 11
  /\ Len(calls) = 3
  /\ calls[1].ep = "member_house" /\ calls[2].ep = "member_senate"
  /\ calls[3] = [ep |-> "sponsored", arg |-> "M101", answer |-> "exception"]

\* C17: the enrichment only attaches ai_summary: each turn leaves the bills,
\* their order and every other field as the search returned them, and the
\* response holds these bills, whether or not the summarization call succeeds.
C17_EnrichOnlyAttaches ==
  [][/\ pc = "enrich" =>
          /\ Cores(bills') = Cores(bills)
          /\ pc' = "done" => response'.status = 200 /\ response'.bills = bills'
     /\ (pc # "enrich" /\ pc' = "done" /\ response'.status = 200) =>
          response'.bills = bills'
    ]_vars

C17_Witness ==
  /\ Answered /\ req.include_ai /\ hfKey
  /\ Len(response.bills) = 2
  /\ Cardinality(LlmCalls) = 2
  /\ \E i, j \in LlmCalls : calls[i].answer = "ok" /\ calls[j].answer = "exception"
  /\ \A i \in 1..2 : response.bills[i].ai_summary.t = "str"

\* C18: a search returns at most limit bills, the mock data included.
C18_AtMostLimit ==
  Returned => Len(bills) <= req.limit

====
